---- MODULE Spec2Model ----
(***************************************************************************)
(* The AddMedicine page of the pharmacy-management application             *)
(* (src/src/pages/AddMedicine.tsx) together with the Firestore document    *)
(* PharmaData/medicine it reads on mount and overwrites on every add.      *)
(*                                                                         *)
(* A session is one mounted AddMedicine component (one browser tab).       *)
(* Strings are sequences of UTF-16 code units, each written as a           *)
(* one-character string, so that .length is Len and the regular            *)
(* expression is a test on the code units.                                 *)
(***************************************************************************)
EXTENDS Integers, Sequences, FiniteSets, TLC

VARIABLES
    doc,          \* the Firestore document PharmaData/medicine
    load,         \* per session: position of the mount-time getDoc
    docSnap,      \* per session: the snapshot getDoc resolved with
    medicine,     \* per session: React state `medicine`
    newMedicine,  \* per session: React state `newMedicine` (the draft)
    showError,    \* per session: React state `showError`
    errorMessage, \* per session: React state `errorMessage`
    commits,      \* per session: the updateDb calls, in call order, each with
                  \* its argument and the state of the promise it returned
    doc0          \* the document as other processes left it before any
                  \* session mounted (never changes)

vars == <<doc, load, docSnap, medicine, newMedicine, showError, errorMessage,
          commits, doc0>>

----------------------------------------------------------------------------
(* Bounds of the model *)

\* accepted submissions per session in Spec
MaxAdds == 2
\* accepted submissions per session in SpecForm
MaxAddsForm == 1
\* accepted submissions per session in SpecPipe
MaxAddsPipe == 3
\* accepted submissions per session in Spec2
MaxAdds2 == 1

----------------------------------------------------------------------------
(* Program constants *)

\* newMedicine.name.length > 100
NameMax == 100
\* newMedicine.id.length > 100
IdMax == 100

AllSessions == {1, 2}

NULL == "<null>"

MsgNameEmpty == "Medicine Name cannot be empty"
MsgNameLong == "Medicine Name cannot be longer than 100 characters."
MsgQuantityEmpty == "Quantity cannot be empty"
MsgQuantityNumeric == "Quantity must be numeric"
MsgIdEmpty == "Medicine ID cannot be empty"
MsgIdLong == "Medicine ID cannot be longer than 100 characters."
NoRejection == "<none>"

\* the character class [0-9]
Digits == {"0", "1", "2", "3", "4", "5", "6", "7", "8", "9"}

\* the same test with the pattern left open at the end, /^[0-9]*/
NumRegexUnanchored(q) == TRUE

\* numRegex.test(q) for numRegex = /^[0-9]*$/i : every code unit is a digit
\* (the empty string matches; without the m flag $ is the end of the input)
NumRegexTest(q) == \A i \in 1..Len(q) : q[i] \in Digits

\* the initial value of newMedicine, and the value handleSubmit resets it to
BlankMedicine ==
    [name |-> <<>>, id |-> <<>>, quantity |-> <<>>, usage |-> <<>>,
     sideEffects |-> <<>>]

\* the chain with the two quantity branches placed before the name branch
RejectionQuantityFirst(m) ==
    IF Len(m.quantity) = 0
    THEN MsgQuantityEmpty
    ELSE IF ~NumRegexTest(m.quantity)
    THEN MsgQuantityNumeric
    ELSE IF Len(m.name) = 0 \/ Len(m.name) > NameMax
    THEN (IF Len(m.name) = 0 THEN MsgNameEmpty ELSE MsgNameLong)
    ELSE IF Len(m.id) = 0 \/ Len(m.id) > IdMax
    THEN (IF Len(m.id) = 0 THEN MsgIdEmpty ELSE MsgIdLong)
    ELSE NoRejection

\* the chain with >= in place of > in the two length tests
RejectionOffByOne(m) ==
    IF Len(m.name) = 0 \/ Len(m.name) >= NameMax
    THEN (IF Len(m.name) = 0 THEN MsgNameEmpty ELSE MsgNameLong)
    ELSE IF Len(m.quantity) = 0
    THEN MsgQuantityEmpty
    ELSE IF ~NumRegexTest(m.quantity)
    THEN MsgQuantityNumeric
    ELSE IF Len(m.id) = 0 \/ Len(m.id) >= IdMax
    THEN (IF Len(m.id) = 0 THEN MsgIdEmpty ELSE MsgIdLong)
    ELSE NoRejection

\* the chain without its last branch, the one on the id
RejectionNoIdCheck(m) ==
    IF Len(m.name) = 0 \/ Len(m.name) > NameMax
    THEN (IF Len(m.name) = 0 THEN MsgNameEmpty ELSE MsgNameLong)
    ELSE IF Len(m.quantity) = 0
    THEN MsgQuantityEmpty
    ELSE IF ~NumRegexTest(m.quantity)
    THEN MsgQuantityNumeric
    ELSE NoRejection

\* the if / else-if chain of handleSubmit: the message of the branch taken,
\* or NoRejection when no branch returns
Rejection(m) ==
    IF Len(m.name) = 0 \/ Len(m.name) > NameMax
    THEN (IF Len(m.name) = 0 THEN MsgNameEmpty ELSE MsgNameLong)
    ELSE IF Len(m.quantity) = 0
    THEN MsgQuantityEmpty
    ELSE IF ~NumRegexTest(m.quantity)
    THEN MsgQuantityNumeric
    ELSE IF Len(m.id) = 0 \/ Len(m.id) > IdMax
    THEN (IF Len(m.id) = 0 THEN MsgIdEmpty ELSE MsgIdLong)
    ELSE NoRejection

\* the updater with unshift in place of push
NewMedicineArrayUnshift(prev, m) == <<m>> \o prev

\* the updater passed to setMedicine: [...prev] with newMedicine pushed
NewMedicineArray(prev, m) == Append(prev, m)

\* the document is absent
AbsentDoc == [exists |-> FALSE, medicines |-> <<>>]

\* a present document with the given medicines field
PresentDoc(ms) == [exists |-> TRUE, medicines |-> ms]

----------------------------------------------------------------------------
(* Inputs *)

Str(n, c) == [i \in 1..n |-> c]

Fields == {"name", "id", "quantity", "usage", "sideEffects"}

\* what the user may type into each field, in Spec
Typed(f) ==
    CASE f = "name" -> {<<>>, <<"A">>}
      [] f = "quantity" -> {<<>>, <<"5">>}
      [] f = "id" -> {<<>>, <<"X">>}
      [] f = "usage" -> {<<>>, <<"u">>}
      [] f = "sideEffects" -> {<<>>}

\* what the user may type into each field, in SpecForm
TypedForm(f) ==
    CASE f = "name" ->
           {<<>>, <<"A">>, Str(NameMax, "x"), Str(NameMax + 1, "x")}
      [] f = "quantity" -> {<<>>, <<"5">>, <<"1", "a">>, <<"-", "1">>}
      [] f = "id" -> {<<>>, <<"X">>, Str(IdMax, "y"), Str(IdMax + 1, "y")}
      [] f = "usage" -> {<<>>}
      [] f = "sideEffects" -> {<<>>}

\* what the user may type into each field, in SpecPipe
TypedPipe(f) ==
    CASE f = "name" -> {<<"A">>}
      [] f = "quantity" -> {<<"5">>}
      [] f = "id" -> {<<"X">>}
      [] f = "usage" -> {<<>>}
      [] f = "sideEffects" -> {<<>>}

\* records other processes may have left in the document
Aspirin ==
    [name |-> <<"A">>, id |-> <<"X">>, quantity |-> <<"5">>, usage |-> <<>>,
     sideEffects |-> <<>>]
Unchecked ==
    [name |-> <<>>, id |-> <<"Z">>, quantity |-> <<"-", "1">>, usage |-> <<>>,
     sideEffects |-> <<>>]

\* the drafts the user of session s fills in, in Spec2
Drafts2(s) ==
    {[name |-> IF s = 1 THEN <<"B">> ELSE <<"C">>, id |-> <<"X">>,
      quantity |-> <<"5">>, usage |-> <<>>, sideEffects |-> <<>>]}

InitialDocs ==
    {AbsentDoc, PresentDoc(<<>>), PresentDoc(<<Aspirin>>),
     PresentDoc(<<Unchecked>>)}

----------------------------------------------------------------------------
(* State after construction *)

InitWith(docs) ==
    /\ doc \in docs
    /\ doc0 = doc
    /\ load = [s \in AllSessions |-> "idle"]
    /\ docSnap = [s \in AllSessions |-> AbsentDoc]
    /\ medicine = [s \in AllSessions |-> <<>>]
    /\ newMedicine = [s \in AllSessions |-> BlankMedicine]
    /\ showError = [s \in AllSessions |-> FALSE]
    /\ errorMessage = [s \in AllSessions |-> NULL]
    /\ commits = [s \in AllSessions |-> <<>>]

Init == InitWith(InitialDocs)

----------------------------------------------------------------------------
(* The mount-time load: useEffect *)

\* the effect runs after the first render: getDoc(docRef) is called
Mount(s) ==
    /\ load[s] = "idle"
    /\ load' = [load EXCEPT ![s] = "pending"]
    /\ UNCHANGED <<doc, docSnap, medicine, newMedicine, showError,
                   errorMessage, commits, doc0>>

\* the store serves the read: the snapshot is the document as it is now
GetDocRead(s) ==
    /\ load[s] = "pending"
    /\ load' = [load EXCEPT ![s] = "read"]
    /\ docSnap' = [docSnap EXCEPT ![s] = doc]
    /\ UNCHANGED <<doc, medicine, newMedicine, showError, errorMessage,
                   commits, doc0>>

\* getDoc rejects: there is no catch, the then-callback never runs
GetDocReject(s) ==
    /\ load[s] = "pending"
    /\ load' = [load EXCEPT ![s] = "failed"]
    /\ UNCHANGED <<doc, docSnap, medicine, newMedicine, showError,
                   errorMessage, commits, doc0>>

\* the then-callback with its test inverted, if (!docSnap.exists())
LoadedInverted(prev, snap) == IF ~snap.exists THEN snap.medicines ELSE prev

\* the value the then-callback leaves in `medicine`
Loaded(prev, snap) == IF snap.exists THEN snap.medicines ELSE prev

\* the then-callback: if (docSnap.exists()) setMedicine(docSnap.data().medicines)
LoadResolve(s) ==
    /\ load[s] = "read"
    /\ load' = [load EXCEPT ![s] = "done"]
    /\ medicine' = [medicine EXCEPT ![s] = Loaded(medicine[s], docSnap[s])]
    /\ UNCHANGED <<doc, docSnap, newMedicine, showError, errorMessage,
                   commits, doc0>>

----------------------------------------------------------------------------
(* The form *)

Mounted(s) == load[s] # "idle"

\* handleChange: setNewMedicine(prev => ({...prev, [name]: value}))
HandleChange(s, f, v) ==
    /\ Mounted(s)
    /\ newMedicine' = [newMedicine EXCEPT ![s][f] = v]
    /\ UNCHANGED <<doc, load, docSnap, medicine, showError, errorMessage,
                   commits, doc0>>

\* handleChange once for every field of the form, with no other event of the
\* session or the store in between: handleChange writes newMedicine alone,
\* which no store event reads or writes, so the order among them is immaterial
FillForm(s, m) ==
    /\ Mounted(s)
    /\ newMedicine' = [newMedicine EXCEPT ![s] = m]
    /\ UNCHANGED <<doc, load, docSnap, medicine, showError, errorMessage,
                   commits, doc0>>

\* the promise updateDb(data) returns, as updateDoc has just been called
UpdateDb(data) == [data |-> data, status |-> "pending"]

\* handleSubmit, as far as a rejected draft takes it
SubmitRejected(s) ==
    /\ Rejection(newMedicine[s]) # NoRejection
    /\ errorMessage' = [errorMessage EXCEPT ![s] = Rejection(newMedicine[s])]
    /\ showError' = [showError EXCEPT ![s] = TRUE]
    /\ UNCHANGED <<medicine, newMedicine, commits>>

\* handleSubmit past the validation; maxAdds bounds the model. The four
\* setState calls are batched into one render, and the updater given to
\* setMedicine, which calls updateDb, runs once per submission (React runs
\* updaters twice only under the development StrictMode).
SubmitAccepted(s, maxAdds) ==
    /\ Rejection(newMedicine[s]) = NoRejection
    /\ Len(commits[s]) < maxAdds
    /\ showError' = [showError EXCEPT ![s] = FALSE]
    /\ errorMessage' = [errorMessage EXCEPT ![s] = ""]
    /\ medicine' =
         [medicine EXCEPT ![s] = NewMedicineArray(medicine[s], newMedicine[s])]
    /\ commits' =
         [commits EXCEPT
            ![s] = Append(commits[s],
                          UpdateDb(NewMedicineArray(medicine[s], newMedicine[s])))]
    /\ newMedicine' = [newMedicine EXCEPT ![s] = BlankMedicine]

\* handleSubmit: the click on "Add Medicine"
HandleSubmit(s, maxAdds) ==
    /\ Mounted(s)
    /\ (SubmitRejected(s) \/ SubmitAccepted(s, maxAdds))
    /\ UNCHANGED <<doc, load, docSnap, doc0>>

----------------------------------------------------------------------------
(* The store settles the updateDoc calls of a session in call order: the    *)
(* Firestore client queues the writes of one client and sends them in      *)
(* order. Each call succeeds or is rejected on its own.                    *)

IsPending(s, i) == commits[s][i].status = "pending"

\* the oldest call of session s not yet settled
FirstPending(s) ==
    CHOOSE i \in 1..Len(commits[s]) :
        IsPending(s, i) /\ \A j \in 1..(i - 1) : ~IsPending(s, j)

HasPending(s) == \E i \in 1..Len(commits[s]) : IsPending(s, i)

\* the write as an arrayUnion: the elements of data the field lacks are added
RECURSIVE ArrayUnion(_, _)
ArrayUnion(ms, data) ==
    IF data = <<>> THEN ms
    ELSE IF \E i \in 1..Len(ms) : ms[i] = Head(data)
         THEN ArrayUnion(ms, Tail(data))
         ELSE ArrayUnion(Append(ms, Head(data)), Tail(data))

OverwriteUnion(d, data) ==
    [d EXCEPT !.medicines = ArrayUnion(d.medicines, data)]

\* updateDoc(docRef, {medicines: data}) applied: only that field is replaced
Overwrite(d, data) == [d EXCEPT !.medicines = data]

\* updateDoc succeeds; it cannot on a document that does not exist
UpdateDocOk(s) ==
    /\ HasPending(s)
    /\ doc.exists
    /\ doc' = Overwrite(doc, commits[s][FirstPending(s)].data)
    /\ commits' = [commits EXCEPT ![s][FirstPending(s)].status = "ok"]
    /\ UNCHANGED <<load, docSnap, medicine, newMedicine, showError,
                   errorMessage, doc0>>

\* a rejection handled by taking the draft of the failed call out of `medicine`
UpdateDocRejectRollsBack(s) ==
    /\ HasPending(s)
    /\ commits' = [commits EXCEPT ![s][FirstPending(s)].status = "failed"]
    /\ medicine' =
         [medicine EXCEPT
            ![s] = SubSeq(commits[s][FirstPending(s)].data, 1,
                          Len(commits[s][FirstPending(s)].data) - 1)]
    /\ UNCHANGED <<doc, load, docSnap, newMedicine, showError, errorMessage,
                   doc0>>

\* updateDoc rejects; updateDb's promise rejects and nobody handles it
UpdateDocReject(s) ==
    /\ HasPending(s)
    /\ commits' = [commits EXCEPT ![s][FirstPending(s)].status = "failed"]
    /\ UNCHANGED <<doc, load, docSnap, medicine, newMedicine, showError,
                   errorMessage, doc0>>

----------------------------------------------------------------------------
(* Specifications *)

\* one session, no other writer
Next ==
    \/ Mount(1)
    \/ GetDocRead(1)
    \/ GetDocReject(1)
    \/ LoadResolve(1)
    \/ \E f \in Fields : \E v \in Typed(f) : HandleChange(1, f, v)
    \/ HandleSubmit(1, MaxAdds)
    \/ UpdateDocOk(1)
    \/ UpdateDocReject(1)

Spec == Init /\ [][Next]_vars

\* one session, every kind of draft, while the store answers the load only
NextForm ==
    \/ Mount(1)
    \/ GetDocRead(1)
    \/ LoadResolve(1)
    \/ \E f \in Fields : \E v \in TypedForm(f) : HandleChange(1, f, v)
    \/ HandleSubmit(1, MaxAddsForm)

SpecForm == InitWith({PresentDoc(<<Aspirin>>)}) /\ [][NextForm]_vars

\* one session, enough submissions to have several updateDoc calls in flight
NextPipe ==
    \/ Mount(1)
    \/ GetDocRead(1)
    \/ GetDocReject(1)
    \/ LoadResolve(1)
    \/ \E f \in Fields : \E v \in TypedPipe(f) : HandleChange(1, f, v)
    \/ HandleSubmit(1, MaxAddsPipe)
    \/ UpdateDocOk(1)
    \/ UpdateDocReject(1)

SpecPipe == Init /\ [][NextPipe]_vars

\* two sessions on the same document
Next2 ==
    \E s \in AllSessions :
        \/ Mount(s)
        \/ GetDocRead(s)
        \/ GetDocReject(s)
        \/ LoadResolve(s)
        \/ \E m \in Drafts2(s) : FillForm(s, m)
        \/ HandleSubmit(s, MaxAdds2)
        \/ UpdateDocOk(s)
        \/ UpdateDocReject(s)

Spec2 == InitWith({PresentDoc(<<>>), PresentDoc(<<Aspirin>>)}) /\ [][Next2]_vars

----------------------------------------------------------------------------
(* The required-field rules, as the data model states them *)

NameRuleOk(m) == Len(m.name) >= 1 /\ Len(m.name) <= 100

QuantityNonEmpty(m) == m.quantity # <<>>

QuantityDigitsOnly(m) == \A i \in DOMAIN m.quantity : m.quantity[i] \in Digits

IdRuleOk(m) == Len(m.id) >= 1 /\ Len(m.id) <= 100

RequiredFieldsOk(m) ==
    NameRuleOk(m) /\ QuantityNonEmpty(m) /\ QuantityDigitsOnly(m) /\ IdRuleOk(m)

\* the number of the first rule of 4.2 the draft violates, 0 when it passes
FirstViolatedRule(m) ==
    IF ~NameRuleOk(m) THEN 1
    ELSE IF ~QuantityNonEmpty(m) THEN 2
    ELSE IF ~QuantityDigitsOnly(m) THEN 3
    ELSE IF ~IdRuleOk(m) THEN 4
    ELSE 0

\* the message that reports the violation of rule k by draft m
RuleMessage(k, m) ==
    CASE k = 1 -> IF m.name = <<>>
                  THEN "Medicine Name cannot be empty"
                  ELSE "Medicine Name cannot be longer than 100 characters."
      [] k = 2 -> "Quantity cannot be empty"
      [] k = 3 -> "Quantity must be numeric"
      [] k = 4 -> IF m.id = <<>>
                  THEN "Medicine ID cannot be empty"
                  ELSE "Medicine ID cannot be longer than 100 characters."

IdMessages ==
    {"Medicine ID cannot be empty",
     "Medicine ID cannot be longer than 100 characters."}

IsPrefix(a, b) == Len(a) <= Len(b) /\ SubSeq(b, 1, Len(a)) = a

LastOf(q) == q[Len(q)]

----------------------------------------------------------------------------
(* C1 *)

\* C1: submitting a draft that passes validation makes the in-memory sequence
\* the previous one with exactly that draft appended at the end, and issues
\* exactly one updateDb call, whose argument is that new sequence; the
\* earlier calls are untouched.
C1_AddAppendsAndCommitsOnce ==
    [][\A s \in AllSessions :
         (HandleSubmit(s, MaxAdds) /\ RequiredFieldsOk(newMedicine[s])) =>
            /\ medicine'[s] = medicine[s] \o <<newMedicine[s]>>
            /\ Len(commits'[s]) = Len(commits[s]) + 1
            /\ SubSeq(commits'[s], 1, Len(commits[s])) = commits[s]
            /\ LastOf(commits'[s]).data = medicine'[s]
            /\ LastOf(commits'[s]).status = "pending"]_vars

\* an add has just been made to a non-empty sequence of other records
C1_Witness ==
    \E s \in AllSessions :
        /\ commits[s] # <<>>
        /\ LastOf(commits[s]).data = medicine[s]
        /\ Len(medicine[s]) >= 2
        /\ medicine[s][1] # LastOf(medicine[s])
        /\ newMedicine[s] = BlankMedicine

----------------------------------------------------------------------------
(* C2 *)

\* C2: a draft whose name is empty, whatever its quantity and id, is
\* rejected with the message 'Medicine Name cannot be empty' and the error
\* flag set; no updateDb call is issued and the in-memory sequence is
\* unchanged.
C2_EmptyNameRejected ==
    [][\A s \in AllSessions :
         (HandleSubmit(s, MaxAddsForm) /\ newMedicine[s].name = <<>>) =>
            /\ showError'[s] = TRUE
            /\ errorMessage'[s] = "Medicine Name cannot be empty"
            /\ commits'[s] = commits[s]
            /\ medicine'[s] = medicine[s]]_vars

\* the draft {name: "", quantity: "5", id: "X"} has been submitted
C2_Witness ==
    \E s \in AllSessions :
        /\ newMedicine[s].name = <<>>
        /\ newMedicine[s].quantity = <<"5">>
        /\ newMedicine[s].id = <<"X">>
        /\ showError[s]
        /\ errorMessage[s] = "Medicine Name cannot be empty"

----------------------------------------------------------------------------
(* C3 *)

HasNonDigit(q) == \E i \in DOMAIN q : q[i] \notin Digits

\* C3 as stated: a draft whose quantity holds a non-digit character is
\* rejected with 'Quantity must be numeric', for every name and id, and no
\* updateDb call is issued.
C3_Original ==
    [][\A s \in AllSessions :
         (HandleSubmit(s, MaxAddsForm) /\ HasNonDigit(newMedicine[s].quantity)) =>
            /\ showError'[s] = TRUE
            /\ errorMessage'[s] = "Quantity must be numeric"
            /\ commits'[s] = commits[s]]_vars

\* C3 amended: a draft whose quantity holds a non-digit character is always
\* rejected and no updateDb call is issued; the message is 'Quantity must be
\* numeric' when the name has 1 to 100 characters (for every id), and the
\* name message otherwise.
C3_NonDigitQuantityRejected ==
    [][\A s \in AllSessions :
         (HandleSubmit(s, MaxAddsForm) /\ HasNonDigit(newMedicine[s].quantity)) =>
            /\ showError'[s] = TRUE
            /\ commits'[s] = commits[s]
            /\ medicine'[s] = medicine[s]
            /\ errorMessage'[s] =
                 IF NameRuleOk(newMedicine[s])
                 THEN "Quantity must be numeric"
                 ELSE RuleMessage(1, newMedicine[s])]_vars

\* a draft with a valid name, a non-digit quantity and an empty id has been
\* submitted
C3_Witness ==
    \E s \in AllSessions :
        /\ NameRuleOk(newMedicine[s])
        /\ HasNonDigit(newMedicine[s].quantity)
        /\ newMedicine[s].id = <<>>
        /\ showError[s]
        /\ errorMessage[s] = "Quantity must be numeric"

----------------------------------------------------------------------------
(* C4 *)

\* C4: handleSubmit reports the first rule, in the order name, quantity
\* non-empty, quantity digits only, id, that the draft violates, and only
\* that one; an empty quantity is reported as 'Quantity cannot be empty',
\* never as 'Quantity must be numeric'; an id message is shown only when name
\* and quantity are both valid; a draft that violates no rule is accepted
\* with the error cleared.
C4_FirstViolatedRuleReported ==
    [][\A s \in AllSessions :
         HandleSubmit(s, MaxAddsForm) =>
            LET m == newMedicine[s]
                k == FirstViolatedRule(m)
            IN  /\ k = 0 => showError'[s] = FALSE /\ errorMessage'[s] = ""
                /\ k # 0 => /\ showError'[s] = TRUE
                            /\ errorMessage'[s] = RuleMessage(k, m)
                            /\ commits'[s] = commits[s]
                /\ (m.quantity = <<>> /\ NameRuleOk(m)) =>
                      errorMessage'[s] = "Quantity cannot be empty"
                /\ m.quantity = <<>> =>
                      errorMessage'[s] # "Quantity must be numeric"
                /\ errorMessage'[s] \in IdMessages =>
                      /\ NameRuleOk(m)
                      /\ QuantityNonEmpty(m)
                      /\ QuantityDigitsOnly(m)]_vars

\* an id of 101 characters has been reported for a draft whose name has
\* exactly 100 characters
C4_Witness ==
    \E s \in AllSessions :
        /\ Len(newMedicine[s].name) = 100
        /\ Len(newMedicine[s].id) = 101
        /\ QuantityNonEmpty(newMedicine[s])
        /\ showError[s]
        /\ errorMessage[s] = "Medicine ID cannot be longer than 100 characters."

----------------------------------------------------------------------------
(* C5 *)

AllCommits == UNION {{<<s, i>> : i \in DOMAIN commits[s]} : s \in AllSessions}

Elements(q) == {q[i] : i \in DOMAIN q}

\* C5 as stated: every record of every sequence handed to updateDb satisfies
\* the required-field rules, those obtained by load included.
C5_Original ==
    \A c \in AllCommits :
        \A m \in Elements(commits[c[1]][c[2]].data) : RequiredFieldsOk(m)

\* C5 amended: in every sequence handed to updateDb the record the add
\* appended (the last one) satisfies the required-field rules, and every
\* record of the sequence either satisfies them or is a record other
\* processes had left in the document, which load takes over unchecked.
C5_WrittenRecordsChecked ==
    \A c \in AllCommits :
        LET data == commits[c[1]][c[2]].data
        IN  /\ RequiredFieldsOk(LastOf(data))
            /\ \A m \in Elements(data) :
                  RequiredFieldsOk(m) \/ m \in Elements(doc0.medicines)

\* a sequence holding a loaded record that breaks the rules, followed by a
\* record entered in the session, has been handed to updateDb
C5_Witness ==
    \E c \in AllCommits :
        LET data == commits[c[1]][c[2]].data
        IN  /\ Len(data) >= 2
            /\ ~RequiredFieldsOk(data[1])
            /\ RequiredFieldsOk(LastOf(data))

----------------------------------------------------------------------------
(* C6 *)

\* C6: once the mount-time fetch has completed, and as long as no add has
\* been submitted, the in-memory sequence is empty if the document is absent
\* and is the document's medicines sequence if it is present.
C6_LoadYieldsDocument ==
    \A s \in AllSessions :
        (load[s] = "done" /\ commits[s] = <<>>) =>
            /\ docSnap[s] = doc
            /\ medicine[s] = IF doc.exists THEN doc.medicines ELSE <<>>

\* the load of a present, non-empty document has completed
C6_Witness ==
    \E s \in AllSessions :
        /\ load[s] = "done"
        /\ commits[s] = <<>>
        /\ doc.exists
        /\ medicine[s] = doc.medicines
        /\ medicine[s] # <<>>

\* the load of an absent document has completed
C6_WitnessAbsent ==
    \E s \in AllSessions :
        load[s] = "done" /\ commits[s] = <<>> /\ ~doc.exists

----------------------------------------------------------------------------
(* C7 *)

\* an updateDoc call of session s made before call i has been rejected
FailedBefore(s, i) == \E j \in 1..(i - 1) : commits[s][j].status = "failed"

\* the call of session s this step settles with success
SettledOk(s, i) ==
    /\ i \in DOMAIN commits[s]
    /\ commits[s][i].status = "pending"
    /\ commits'[s][i].status = "ok"

\* every add of session s so far was made after its load had completed: the
\* i-th sequence handed to updateDb is the loaded one plus i drafts, and the
\* in-memory sequence is the one the latest add produced
AddsFollowedLoad(s) ==
    /\ load[s] = "done"
    /\ docSnap[s].exists
    /\ \A i \in DOMAIN commits[s] :
          /\ Len(commits[s][i].data) = Len(docSnap[s].medicines) + i
          /\ IsPrefix(docSnap[s].medicines, commits[s][i].data)
    /\ medicine[s] = LastOf(commits[s]).data

C7_NoRollback ==
    \A s \in AllSessions :
        UpdateDocReject(s) => medicine' = medicine /\ doc' = doc

\* the success of an updateDoc call leaves in the store the sequence that
\* call was issued with, and leaves the in-memory sequence as it is
C7_StoreGetsIssuedSequence ==
    \A s \in AllSessions :
        UpdateDocOk(s) =>
            /\ medicine' = medicine
            /\ \E i \in DOMAIN commits[s] :
                  SettledOk(s, i) /\ doc'.medicines = commits[s][i].data

\* once the latest updateDoc call of the session has succeeded the store
\* holds its sequence, and the in-memory sequence is that sequence too,
\* unless the mount-time load has since replaced it by its snapshot
C7_ConvergedAfterLatest ==
    \A s \in {1} :
        (commits[s] # <<>> /\ LastOf(commits[s]).status = "ok") =>
            /\ doc.medicines = LastOf(commits[s]).data
            /\ \/ medicine[s] = doc.medicines
               \/ load[s] = "done" /\ medicine[s] = docSnap[s].medicines

----------------------------------------------------------------------------
(* C8 *)

\* C8: a commit is issued only from Ready, that is after the load has
\* completed successfully, and never after a load or a commit of the session
\* has been rejected (the component loads once, on mount, so no fresh load
\* follows a rejection).
C8_Original ==
    [][\A s \in AllSessions :
         Len(commits'[s]) > Len(commits[s]) =>
            /\ load[s] = "done"
            /\ \A i \in DOMAIN commits[s] : commits[s][i].status # "failed"]_vars

----------------------------------------------------------------------------
(* C10 *)

\* every store call of session s has completed successfully
AllSucceeded(s) ==
    /\ load[s] = "done"
    /\ \A i \in DOMAIN commits[s] : commits[s][i].status = "ok"

\* C10: with one session and no other writer, every sequence written to the
\* store has the store's previous medicines sequence as a prefix, and once
\* all store calls have completed successfully the in-memory sequence equals
\* the store's.
C10_Original ==
    /\ [](\A s \in {1} : AllSucceeded(s) => medicine[s] = doc.medicines)
    /\ [][\A s \in {1} :
            UpdateDocOk(s) => IsPrefix(doc.medicines, doc'.medicines)]_vars

----------------------------------------------------------------------------
(* C9 *)

\* session s has loaded the sequence S, then submitted exactly one valid
\* draft, and the store has accepted its commit
AddedOneTo(s, S) ==
    /\ load[s] = "done"
    /\ docSnap[s] = PresentDoc(S)
    /\ Len(commits[s]) = 1
    /\ commits[s][1].status = "ok"
    /\ Len(commits[s][1].data) = Len(S) + 1
    /\ IsPrefix(S, commits[s][1].data)

\* the store holds the sequence one of the two sessions wrote, which is S
\* plus one draft: no merge
C9_LastCommitHeld ==
    LET S == doc0.medicines
    IN  (\A s \in AllSessions : AddedOneTo(s, S)) =>
            /\ doc.medicines \in {commits[s][1].data : s \in AllSessions}
            /\ Len(doc.medicines) = Len(S) + 1

\* the store holds the sequence of the commit just applied, whatever it held
\* before, and the step reports nothing to either session
C9_AppliedCommitWins ==
    \A s \in AllSessions :
        UpdateDocOk(s) =>
            /\ \E i \in DOMAIN commits[s] :
                  SettledOk(s, i) /\ doc'.medicines = commits[s][i].data
            /\ UNCHANGED <<showError, errorMessage, medicine>>

\* C9: two sessions that have loaded the same sequence S and each submit one
\* valid draft leave, in every interleaving of their commits, the store
\* holding the sequence of the commit applied last, S plus d1 or S plus d2,
\* never a merge of both; the other draft is lost and no error is shown in
\* either session.
C9_LastCommitWins ==
    /\ []C9_LastCommitHeld
    /\ [][C9_AppliedCommitWins]_vars

\* both sessions loaded the same non-empty S, both commits succeeded, and the
\* store holds the sequence of session 2: the draft of session 1 is lost
C9_Witness ==
    /\ doc0.medicines # <<>>
    /\ \A s \in AllSessions : AddedOneTo(s, doc0.medicines)
    /\ commits[1][1].data # commits[2][1].data
    /\ doc.medicines = commits[2][1].data
    /\ \A s \in AllSessions : ~showError[s]

====
